---------------------------- MODULE Spec2Model ----------------------------
(***************************************************************************)
(* A model of src/app.py: the Streamlit document processor.  A text is a   *)
(* sequence of one-character strings; the regular expressions of the       *)
(* extractors are kept as data and run by a backtracking matcher with the  *)
(* priorities of Python's re module (ordered alternation, greedy and lazy  *)
(* quantifiers, leftmost match).                                           *)
(***************************************************************************)
EXTENDS Integers, Sequences, FiniteSets, TLC

(***************************************************************************)
(* Characters and Python's string helpers.                                 *)
(***************************************************************************)
LowerSeq ==
    <<"a","b","c","d","e","f","g","h","i","j","k","l","m",
      "n","o","p","q","r","s","t","u","v","w","x","y","z">>
UpperSeq ==
    <<"A","B","C","D","E","F","G","H","I","J","K","L","M",
      "N","O","P","Q","R","S","T","U","V","W","X","Y","Z">>
Lower == {LowerSeq[k] : k \in DOMAIN LowerSeq}
Upper == {UpperSeq[k] : k \in DOMAIN UpperSeq}
DigitSeq == <<"0","1","2","3","4","5","6","7","8","9">>
Digit == {DigitSeq[k] : k \in DOMAIN DigitSeq}
\* \s of the re module, on the characters a text of the model can hold
Space == {" ", "\n", "\t"}

\* re.IGNORECASE on one literal character: the character in both cases
CI(c) ==
    {c} \cup {UpperSeq[k] : k \in {j \in DOMAIN LowerSeq : LowerSeq[j] = c}}
        \cup {LowerSeq[k] : k \in {j \in DOMAIN UpperSeq : UpperSeq[j] = c}}

SetMin(S) == CHOOSE x \in S : \A y \in S : x <= y
SetMax(S) == 0 - SetMin({0 - x : x \in S})

\* Python's None, and a value that is present
None == [some |-> FALSE, v |-> <<>>]
Some(x) == [some |-> TRUE, v |-> x]

\* str.strip(): drop the leading and the trailing whitespace
Strip(v) ==
    LET keep == {k \in DOMAIN v : v[k] \notin Space}
    IN  IF keep = {} THEN <<>> ELSE SubSeq(v, SetMin(keep), SetMax(keep))

\* str.split('\n'): the lines of a text, the separators left out
SplitLines(text) ==
    LET nl == {k \in DOMAIN text : text[k] = "\n"}
        \* the position of the k-th newline; 0 before the first, Len+1 after the last
        at(k) == IF k = 0 THEN 0
                 ELSE IF k > Cardinality(nl) THEN Len(text) + 1
                 ELSE CHOOSE p \in nl : Cardinality({q \in nl : q <= p}) = k
    IN  [k \in 1..(Cardinality(nl) + 1) |-> SubSeq(text, at(k - 1) + 1, at(k) - 1)]

\* "\n".join(lines)
RECURSIVE JoinLines(_)
JoinLines(lines) ==
    IF Len(lines) = 0 THEN <<>>
    ELSE IF Len(lines) = 1 THEN lines[1]
    ELSE lines[1] \o <<"\n">> \o JoinLines(Tail(lines))

\* int() of a string of decimal digits
DigitValue(c) == (CHOOSE k \in DOMAIN DigitSeq : DigitSeq[k] = c) - 1
RECURSIVE ParseInt(_)
ParseInt(ds) ==
    IF Len(ds) = 0 THEN 0
    ELSE 10 * ParseInt(SubSeq(ds, 1, Len(ds) - 1)) + DigitValue(ds[Len(ds)])

(***************************************************************************)
(* Regular expressions as data.  A pattern is a sequence of nodes.         *)
(***************************************************************************)
Cls(S) == [t |-> "cls", set |-> S]
\* '.' under re.DOTALL, and '.' without it
AnyChar == [t |-> "any"]
Dot == [t |-> "dot"]
\* a literal under re.IGNORECASE
Lit(w) == [k \in DOMAIN w |-> Cls(CI(w[k]))]
Alt(alts) == <<[t |-> "alt", alts |-> alts]>>
Group(g, p) == <<[t |-> "open", g |-> g]>> \o p \o <<[t |-> "close", g |-> g]>>
\* quantifiers on one character class: c*, c+, c+?, c{m,n}
Star(c) == <<[t |-> "span", c |-> c, min |-> 0, max |-> 0, inf |-> TRUE, greedy |-> TRUE]>>
Plus(c) == <<[t |-> "span", c |-> c, min |-> 1, max |-> 0, inf |-> TRUE, greedy |-> TRUE]>>
LazyPlus(c) == <<[t |-> "span", c |-> c, min |-> 1, max |-> 0, inf |-> TRUE, greedy |-> FALSE]>>
LazyStar(c) == <<[t |-> "span", c |-> c, min |-> 0, max |-> 0, inf |-> TRUE, greedy |-> FALSE]>>
Between(c, m, n) == <<[t |-> "span", c |-> c, min |-> m, max |-> n, inf |-> FALSE, greedy |-> TRUE]>>
\* greedy quantifiers on a group: (?:p)? and (?:p)*
Opt(p) == <<[t |-> "rep", body |-> p, min |-> 0, max |-> 1, inf |-> FALSE]>>
StarOf(p) == <<[t |-> "rep", body |-> p, min |-> 0, max |-> 0, inf |-> TRUE]>>
\* '^' without re.MULTILINE
Bol == <<[t |-> "bol"]>>

InClass(c, ch) ==
    CASE c.t = "cls" -> ch \in c.set
      [] c.t = "any" -> TRUE
      [] c.t = "dot" -> ch # "\n"

NoMatch == [ok |-> FALSE, start |-> 0, end |-> 0, caps |-> [g \in 1..4 |-> <<0, 0>>]]

(***************************************************************************)
(* The matcher: Run(s, todo, i, caps) matches the nodes of todo against s  *)
(* from position i and returns the first success in the order in which     *)
(* re's backtracking tries the paths.  Ranges of candidates (the counts of *)
(* a quantifier, the start positions of a search) are walked in that       *)
(* order by halving, which keeps the recursion shallow on long texts.      *)
(***************************************************************************)
\* the first position in lo..hi that is past the end of s or holds a character
\* outside class c; hi + 1 when there is none
RECURSIVE SpanStop(_, _, _, _)
SpanStop(s, c, lo, hi) ==
    IF lo > hi THEN hi + 1
    ELSE IF lo = hi THEN (IF lo > Len(s) \/ ~InClass(c, s[lo]) THEN lo ELSE hi + 1)
    ELSE LET mid == (lo + hi) \div 2
             left == SpanStop(s, c, lo, mid)
         IN  IF left <= mid THEN left ELSE SpanStop(s, c, mid + 1, hi)

RECURSIVE Run(_, _, _, _)
RECURSIVE RunAlt(_, _, _, _, _, _)
RECURSIVE RunSpan(_, _, _, _, _, _, _)
RunAlt(s, alts, k, rest, i, caps) ==
    IF k > Len(alts) THEN NoMatch
    ELSE LET r == Run(s, alts[k] \o rest, i, caps)
         IN  IF r.ok THEN r ELSE RunAlt(s, alts, k + 1, rest, i, caps)

\* a quantified character class h taking a count in lo..hi: the first count, from
\* the longest down (greedy) or from the shortest up (lazy), that lets rest match
RunSpan(s, h, rest, i, lo, hi, caps) ==
    IF lo > hi THEN NoMatch
    ELSE IF lo = hi THEN Run(s, rest, i + lo, caps)
    ELSE LET mid == (lo + hi) \div 2
             first == IF h.greedy THEN RunSpan(s, h, rest, i, mid + 1, hi, caps)
                      ELSE RunSpan(s, h, rest, i, lo, mid, caps)
         IN  IF first.ok THEN first
             ELSE IF h.greedy THEN RunSpan(s, h, rest, i, lo, mid, caps)
             ELSE RunSpan(s, h, rest, i, mid + 1, hi, caps)

Run(s, todo, i, caps) ==
    IF Len(todo) = 0 THEN [ok |-> TRUE, start |-> 0, end |-> i, caps |-> caps]
    ELSE
    LET h == Head(todo)
        rest == Tail(todo)
    IN  CASE h.t \in {"cls", "any", "dot"} ->
               IF i <= Len(s) /\ InClass(h, s[i]) THEN Run(s, rest, i + 1, caps) ELSE NoMatch
          [] h.t = "bol" ->
               IF i = 1 THEN Run(s, rest, i, caps) ELSE NoMatch
          [] h.t = "open" ->
               Run(s, rest, i, [caps EXCEPT ![h.g] = <<i, i>>])
          [] h.t = "close" ->
               Run(s, rest, i, [caps EXCEPT ![h.g] = <<@[1], i>>])
          [] h.t = "alt" ->
               RunAlt(s, h.alts, 1, rest, i, caps)
          [] h.t = "span" ->
               \* the characters of the class that follow i bound the count
               LET last == IF h.inf THEN Len(s) ELSE i + h.max - 1
                   stop == IF h.c.t = "any"
                           THEN (IF last < Len(s) THEN last + 1 ELSE Len(s) + 1)
                           ELSE SpanStop(s, h.c, i, last)
               IN  RunSpan(s, h, rest, i, h.min, stop - i, caps)
          [] h.t = "rep" ->
               LET again == [h EXCEPT !.min = IF @ > 0 THEN @ - 1 ELSE 0,
                                      !.max = IF h.inf THEN 0 ELSE @ - 1]
                   more == IF h.inf \/ h.max > 0
                           THEN Run(s, h.body \o <<again>> \o rest, i, caps)
                           ELSE NoMatch
               IN  IF more.ok THEN more
                   ELSE IF h.min = 0 THEN Run(s, rest, i, caps) ELSE NoMatch

\* the match of p at the first start position in lo..hi that has one
RECURSIVE SearchIn(_, _, _, _)
SearchIn(p, s, lo, hi) ==
    IF lo > hi THEN NoMatch
    ELSE IF lo = hi THEN [Run(s, p, lo, NoMatch.caps) EXCEPT !.start = lo]
    ELSE LET mid == (lo + hi) \div 2
             left == SearchIn(p, s, lo, mid)
         IN  IF left.ok THEN left ELSE SearchIn(p, s, mid + 1, hi)

\* re.search(p, s[from..]): the match at the leftmost position that has one
SearchFrom(p, s, from) == SearchIn(p, s, from, Len(s) + 1)

Search(p, s) == SearchFrom(p, s, 1)

\* match.group(g)
GroupText(s, m, g) == SubSeq(s, m.caps[g][1], m.caps[g][2] - 1)

\* pattern.finditer(s): the matches left to right, each starting where the one
\* before it ended
RECURSIVE FindIterFrom(_, _, _)
FindIterFrom(p, s, from) ==
    LET m == SearchFrom(p, s, from)
    IN  IF ~m.ok THEN <<>>
        ELSE <<m>> \o FindIterFrom(p, s, IF m.end > m.start THEN m.end ELSE m.end + 1)

FindIter(p, s) == FindIterFrom(p, s, 1)

(***************************************************************************)
(* extract_invoice_data: its keyword lists and its regular expressions.    *)
(***************************************************************************)
\* (invoice date|date)
date_keywords ==
    <<<<"i","n","v","o","i","c","e"," ","d","a","t","e">>,
      <<"d","a","t","e">>>>
\* (invoice number|invoice no|invoice #|inv #|bill no)
invoice_number_keywords ==
    <<<<"i","n","v","o","i","c","e"," ","n","u","m","b","e","r">>,
      <<"i","n","v","o","i","c","e"," ","n","o">>,
      <<"i","n","v","o","i","c","e"," ","#">>,
      <<"i","n","v"," ","#">>,
      <<"b","i","l","l"," ","n","o">>>>
\* (subtotal)
subtotal_keywords ==
    <<<<"s","u","b","t","o","t","a","l">>>>
\* (tax|vat)
tax_keywords ==
    <<<<"t","a","x">>,
      <<"v","a","t">>>>
\* (total|grand total|amount due)
total_keywords ==
    <<<<"t","o","t","a","l">>,
      <<"g","r","a","n","d"," ","t","o","t","a","l">>,
      <<"a","m","o","u","n","t"," ","d","u","e">>>>
\* (vendor|supplier|from)
vendor_keywords ==
    <<<<"v","e","n","d","o","r">>,
      <<"s","u","p","p","l","i","e","r">>,
      <<"f","r","o","m">>>>
\* (customer|client|bill to)
customer_keywords ==
    <<<<"c","u","s","t","o","m","e","r">>,
      <<"c","l","i","e","n","t">>,
      <<"b","i","l","l"," ","t","o">>>>
\* (description|item|qty|quantity|unit price|price per unit|amount|total)
header_words ==
    <<<<"d","e","s","c","r","i","p","t","i","o","n">>,
      <<"i","t","e","m">>,
      <<"q","t","y">>,
      <<"q","u","a","n","t","i","t","y">>,
      <<"u","n","i","t"," ","p","r","i","c","e">>,
      <<"p","r","i","c","e"," ","p","e","r"," ","u","n","i","t">>,
      <<"a","m","o","u","n","t">>,
      <<"t","o","t","a","l">>>>
\* (?:Jan|Feb|Mar|Apr|May|Jun|Jul|Aug|Sep|Oct|Nov|Dec)
month_names ==
    <<<<"J","a","n">>,
      <<"F","e","b">>,
      <<"M","a","r">>,
      <<"A","p","r">>,
      <<"M","a","y">>,
      <<"J","u","n">>,
      <<"J","u","l">>,
      <<"A","u","g">>,
      <<"S","e","p">>,
      <<"O","c","t">>,
      <<"N","o","v">>,
      <<"D","e","c">>>>

\* (k1|k2|...) under re.IGNORECASE, the alternatives in the order of the list
Keywords(kws) == Alt([k \in DOMAIN kws |-> Lit(kws[k])])

\* [\$\£\€]
CurrencySymbol == {"$", "£", "€"}
\* [:\s]*
ColonSpace == Star(Cls({":"} \cup Space))
\* [\/\-\.]
DateSep == <<Cls({"/", "-", "."})>>
D == Cls(Digit)

\* amount_pattern, as capture group g:
\* ([\$\£\€]?\s*\d{1,3}(?:,\d{3})*(?:\.\d{2})?)
amount_pattern(g) ==
    Group(g, Between(Cls(CurrencySymbol), 0, 1) \o Star(Cls(Space)) \o Between(D, 1, 3)
             \o StarOf(<<Cls({","})>> \o Between(D, 3, 3))
             \o Opt(<<Cls({"."})>> \o Between(D, 2, 2)))

\* \d{1,2}[\/\-\.]\d{1,2}[\/\-\.]\d{2,4}
date_dmy == Between(D, 1, 2) \o DateSep \o Between(D, 1, 2) \o DateSep \o Between(D, 2, 4)
\* \d{4}[\/\-\.]\d{1,2}[\/\-\.]\d{1,2}
date_ymd == Between(D, 4, 4) \o DateSep \o Between(D, 1, 2) \o DateSep \o Between(D, 1, 2)
\* (?:Jan|...|Dec)\s+\d{1,2},\s+\d{4}
date_month == Keywords(month_names) \o Plus(Cls(Space)) \o Between(D, 1, 2)
              \o <<Cls({","})>> \o Plus(Cls(Space)) \o Between(D, 4, 4)
invoice_date_value == Alt(<<date_dmy, date_ymd, date_month>>)
\* [A-Z0-9\-\/]+ under re.IGNORECASE
invoice_number_value == Plus(Cls(Upper \cup Lower \cup Digit \cup {"-", "/"}))

\* the regular expression of a field rule: (keywords)[:\s]*(value)
date_re(kws) == Group(1, Keywords(kws)) \o ColonSpace \o Group(2, invoice_date_value)
invoice_number_re(kws) == Group(1, Keywords(kws)) \o ColonSpace \o Group(2, invoice_number_value)
amount_re(kws) == Group(1, Keywords(kws)) \o ColonSpace \o amount_pattern(2)
\* (keywords)[:\s]*(.+), '.' not matching a newline
name_re(kws) == Group(1, Keywords(kws)) \o ColonSpace \o Group(2, Plus(Dot))
currency_re == Group(1, <<Cls(CurrencySymbol)>>)
header_re == Group(1, Keywords(header_words))

\* line_item_pattern: (.+?)\s+(\d+)\s+<amount>\s+<amount> under re.DOTALL
line_item_pattern ==
    Group(1, LazyPlus(AnyChar)) \o Plus(Cls(Space)) \o Group(2, Plus(D)) \o Plus(Cls(Space))
    \o amount_pattern(3) \o Plus(Cls(Space)) \o amount_pattern(4)

(***************************************************************************)
(* extract_invoice_data(text), with dates the texts of the DATE entities   *)
(* the tagger found in the text (doc.ents), in its order.                  *)
(***************************************************************************)
HeaderFields ==
    {"Invoice Number", "Invoice Date", "Vendor Name", "Vendor Address", "Customer Name",
     "Customer Address", "Subtotal Amount", "Tax Amount", "Total Amount", "Currency"}

\* the regular expressions of the field rules, compiled once
date_regex == date_re(date_keywords)
invoice_number_regex == invoice_number_re(invoice_number_keywords)
subtotal_regex == amount_re(subtotal_keywords)
tax_regex == amount_re(tax_keywords)
total_regex == amount_re(total_keywords)
vendor_regex == name_re(vendor_keywords)
customer_regex == name_re(customer_keywords)

\* the group the code reads from a match of a field rule
InvoiceDateGroup == 2
InvoiceNumberGroup == 2
SubtotalGroup == 1
TaxGroup == 1
TotalGroup == 1

\* match.group(g).strip() when the rule matched, None otherwise
FieldOf(text, m, g) == IF m.ok THEN Some(Strip(GroupText(text, m, g))) ELSE None

\* if dates: the keyword-anchored date when date_match, elif dates: dates[0]
InvoiceDate(text, dates) ==
    LET date_match == Search(date_regex, text)
    IN  IF Len(dates) > 0
        THEN IF date_match.ok THEN FieldOf(text, date_match, InvoiceDateGroup)
             ELSE Some(dates[1])
        ELSE None

\* the currency symbol inside the group an amount rule read, taken when Currency
\* is still None after the rules before it
CurrencyAfter(currency, text, m, g) ==
    LET inner == IF m.ok THEN Search(currency_re, GroupText(text, m, g)) ELSE NoMatch
    IN  IF m.ok /\ ~currency.some /\ inner.ok
        THEN Some(GroupText(GroupText(text, m, g), inner, 1))
        ELSE currency

\* match.group(2).split('\n')[0].strip()
FirstLineOf(text, m) ==
    IF m.ok THEN Some(Strip(SplitLines(GroupText(text, m, 2))[1])) ELSE None

\* a faulty variant of SectionText that takes the whole text as the candidate
\* section without looking for a column-header word
SectionTextWholeText(text) == Some(text)

\* the candidate section: from the first line holding a column-header word to
\* the end of the text; None when no line holds one
SectionText(text) ==
    LET lines == SplitLines(text)
        hits == {i \in DOMAIN lines : Search(header_re, lines[i]).ok}
    IN  IF hits = {} THEN None
        ELSE Some(JoinLines(SubSeq(lines, SetMin(hits), Len(lines))))

\* the dictionary appended for one match of line_item_pattern in the section
LineItemOf(s, m) ==
    ("Item Description" :> Strip(GroupText(s, m, 1)))
    @@ ("Quantity" :> ParseInt(Strip(GroupText(s, m, 2))))
    @@ ("Unit Price" :> Strip(GroupText(s, m, 3)))
    @@ ("Line Item Total" :> Strip(GroupText(s, m, 4)))

ItemsIn(s) ==
    LET ms == FindIter(line_item_pattern, s)
    IN  [k \in DOMAIN ms |-> LineItemOf(s, ms[k])]

LineItems(text) ==
    LET section_text == SectionText(text)
    IN  IF section_text.some THEN ItemsIn(section_text.v) ELSE <<>>

extract_invoice_data(text, dates) ==
    LET invoice_number_match == Search(invoice_number_regex, text)
        currency_match == Search(currency_re, text)
        subtotal_match == Search(subtotal_regex, text)
        tax_match == Search(tax_regex, text)
        total_match == Search(total_regex, text)
        vendor_match == Search(vendor_regex, text)
        customer_match == Search(customer_regex, text)
        c0 == IF currency_match.ok THEN Some(GroupText(text, currency_match, 1)) ELSE None
        c1 == CurrencyAfter(c0, text, subtotal_match, SubtotalGroup)
        c2 == CurrencyAfter(c1, text, tax_match, TaxGroup)
        c3 == CurrencyAfter(c2, text, total_match, TotalGroup)
    IN  [f \in HeaderFields \cup {"Line Items"} |->
           CASE f = "Invoice Number" -> FieldOf(text, invoice_number_match, InvoiceNumberGroup)
             [] f = "Invoice Date" -> InvoiceDate(text, dates)
             [] f = "Vendor Name" -> FirstLineOf(text, vendor_match)
             [] f = "Customer Name" -> FirstLineOf(text, customer_match)
             [] f = "Subtotal Amount" -> FieldOf(text, subtotal_match, SubtotalGroup)
             [] f = "Tax Amount" -> FieldOf(text, tax_match, TaxGroup)
             [] f = "Total Amount" -> FieldOf(text, total_match, TotalGroup)
             [] f = "Currency" -> c3
             [] f = "Line Items" -> LineItems(text)
             [] OTHER -> None]

(***************************************************************************)
(* structure_invoice_data_for_excel and structure_contract_data_for_excel. *)
(***************************************************************************)
LineItemColumns == {"Line Item Description", "Quantity", "Unit Price", "Line Item Total"}

\* the keys of the dictionary appended for an invoice without line items, in
\* the order the dictionary lists them
HeaderOnlyRowKeys ==
    <<"Invoice Number", "Invoice Date", "Vendor Name", "Vendor Address", "Customer Name",
      "Customer Address", "Subtotal Amount", "Tax Amount", "Total Amount", "Currency",
      "Line Item Description", "Quantity", "Unit Price", "Line Item Total">>

\* the keys of the dictionary appended for one line item, in the order the
\* dictionary lists them
ItemRowKeys ==
    <<"Invoice Number", "Invoice Date", "Vendor Name", "Vendor Address", "Customer Name",
      "Customer Address", "Subtotal Amount", "Tax Amount", "Total Amount", "Currency",
      "Line Item Description", "Quantity", "Unit Price", "Line Item Total">>

\* the keys of a dictionary, without their order
KeySet(row_keys) == {row_keys[k] : k \in DOMAIN row_keys}

\* the row of an invoice without line items: the header fields, the rest None
HeaderOnlyRow(extracted_invoice_data) ==
    [c \in KeySet(HeaderOnlyRowKeys) |->
       IF c \in HeaderFields THEN extracted_invoice_data[c] ELSE None]

\* the row of one line item: the header fields repeated, then the item's fields
ItemRow(extracted_invoice_data, item) ==
    [c \in KeySet(ItemRowKeys) |->
       CASE c \in HeaderFields -> extracted_invoice_data[c]
         [] c = "Line Item Description" -> Some(item["Item Description"])
         [] c = "Quantity" -> Some(item["Quantity"])
         [] c = "Unit Price" -> Some(item["Unit Price"])
         [] c = "Line Item Total" -> Some(item["Line Item Total"])]

\* a faulty variant of structure_invoice_data_for_excel that forgets the
\* branch of an invoice without line items
StructureItemsOnly(extracted_invoice_data) ==
    LET line_items == extracted_invoice_data["Line Items"]
    IN  [k \in DOMAIN line_items |-> ItemRow(extracted_invoice_data, line_items[k])]

\* a faulty variant of structure_invoice_data_for_excel that builds the rows
\* of the line items from the last item to the first
StructureReversed(extracted_invoice_data) ==
    LET line_items == extracted_invoice_data["Line Items"]
        n == Len(line_items)
    IN  IF n = 0
        THEN <<HeaderOnlyRow(extracted_invoice_data)>>
        ELSE [k \in DOMAIN line_items |->
                ItemRow(extracted_invoice_data, line_items[n + 1 - k])]

structure_invoice_data_for_excel(extracted_invoice_data) ==
    LET line_items == extracted_invoice_data["Line Items"]
    IN  IF Len(line_items) = 0
        THEN <<HeaderOnlyRow(extracted_invoice_data)>>
        ELSE [k \in DOMAIN line_items |-> ItemRow(extracted_invoice_data, line_items[k])]

\* the keys, in order, of every dictionary structure_invoice_data_for_excel
\* returns for a record
RowKeys(extracted_invoice_data) ==
    IF Len(extracted_invoice_data["Line Items"]) = 0 THEN HeaderOnlyRowKeys ELSE ItemRowKeys

(***************************************************************************)
(* extract_contract_data: its keyword lists and its regular expressions.   *)
(***************************************************************************)
\* (agreement|contract|service level agreement|partnership contract|consulting contract)
title_keywords ==
    <<<<"a","g","r","e","e","m","e","n","t">>,
      <<"c","o","n","t","r","a","c","t">>,
      <<"s","e","r","v","i","c","e"," ","l","e","v","e","l"," ","a","g","r","e","e","m","e","n","t">>,
      <<"p","a","r","t","n","e","r","s","h","i","p"," ","c","o","n","t","r","a","c","t">>,
      <<"c","o","n","s","u","l","t","i","n","g"," ","c","o","n","t","r","a","c","t">>>>
\* (between|parties|and)
party_keyword_words ==
    <<<<"b","e","t","w","e","e","n">>,
      <<"p","a","r","t","i","e","s">>,
      <<"a","n","d">>>>
\* (effective date|date of effect)
effective_date_keywords ==
    <<<<"e","f","f","e","c","t","i","v","e"," ","d","a","t","e">>,
      <<"d","a","t","e"," ","o","f"," ","e","f","f","e","c","t">>>>
\* (expiration date|expires on|term ends)
expiration_date_keywords ==
    <<<<"e","x","p","i","r","a","t","i","o","n"," ","d","a","t","e">>,
      <<"e","x","p","i","r","e","s"," ","o","n">>,
      <<"t","e","r","m"," ","e","n","d","s">>>>
\* (governing law|jurisdiction|this agreement shall be governed by)
governing_law_keywords ==
    <<<<"g","o","v","e","r","n","i","n","g"," ","l","a","w">>,
      <<"j","u","r","i","s","d","i","c","t","i","o","n">>,
      <<"t","h","i","s"," ","a","g","r","e","e","m","e","n","t"," ","s","h","a","l","l"," ","b","e"," ","g","o","v","e","r","n","e","d"," ","b","y">>>>
\* (?:st|nd|rd|th)
ordinal_suffixes ==
    <<<<"s","t">>,
      <<"n","d">>,
      <<"r","d">>,
      <<"t","h">>>>

ClauseNames ==
    {"Payment Terms", "Termination Clause", "Confidentiality Clause",
     "Intellectual Property Clause", "Limitation of Liability Clause",
     "Dispute Resolution Clause"}

\* keywords: the terms of each key clause, in the order they are searched
keywords ==
    ("Payment Terms" :>
       <<<<"p","a","y","m","e","n","t"," ","t","e","r","m","s">>,
         <<"b","i","l","l","i","n","g">>,
         <<"f","e","e","s">>,
         <<"c","o","m","p","e","n","s","a","t","i","o","n">>>>)
    @@
    ("Termination Clause" :>
       <<<<"t","e","r","m","i","n","a","t","i","o","n">>,
         <<"e","x","p","i","r","a","t","i","o","n">>,
         <<"t","e","r","m"," ","a","n","d"," ","t","e","r","m","i","n","a","t","i","o","n">>,
         <<"t","e","r","m","i","n","a","t","e">>>>)
    @@
    ("Confidentiality Clause" :>
       <<<<"c","o","n","f","i","d","e","n","t","i","a","l","i","t","y">>,
         <<"n","o","n","-","d","i","s","c","l","o","s","u","r","e">>,
         <<"c","o","n","f","i","d","e","n","t","i","a","l"," ","i","n","f","o","r","m","a","t","i","o","n">>>>)
    @@
    ("Intellectual Property Clause" :>
       <<<<"i","n","t","e","l","l","e","c","t","u","a","l"," ","p","r","o","p","e","r","t","y">>,
         <<"i","p"," ","r","i","g","h","t","s">>>>)
    @@
    ("Limitation of Liability Clause" :>
       <<<<"l","i","m","i","t","a","t","i","o","n"," ","o","f"," ","l","i","a","b","i","l","i","t","y">>,
         <<"l","i","a","b","i","l","i","t","y">>>>)
    @@
    ("Dispute Resolution Clause" :>
       <<<<"d","i","s","p","u","t","e"," ","r","e","s","o","l","u","t","i","o","n">>,
         <<"a","r","b","i","t","r","a","t","i","o","n">>,
         <<"g","o","v","e","r","n","i","n","g"," ","l","a","w">>>>)

\* date_pattern_flexible: the two numeric forms of the invoice date, or
\* (?:Jan|...|Dec)\s+\d{1,2}(?:st|nd|rd|th)?(?:,|\s+)\s+\d{4}
date_month_flexible ==
    Keywords(month_names) \o Plus(Cls(Space)) \o Between(D, 1, 2)
    \o Opt(Keywords(ordinal_suffixes)) \o Alt(<<<<Cls({","})>>, Plus(Cls(Space))>>)
    \o Plus(Cls(Space)) \o Between(D, 4, 4)
date_pattern_flexible(g) == Group(g, Alt(<<date_dmy, date_ymd, date_month_flexible>>))

\* ^(.*?)(agreement|contract|...) under re.DOTALL
title_regex == Bol \o Group(1, LazyStar(AnyChar)) \o Group(2, Keywords(title_keywords))
\* (between|parties|and)[:\s]*(.+) under re.DOTALL
party_regex == Group(1, Keywords(party_keyword_words)) \o ColonSpace \o Group(2, Plus(AnyChar))
\* (effective date|date of effect)[:\s]*<date_pattern_flexible>
effective_date_regex ==
    Group(1, Keywords(effective_date_keywords)) \o ColonSpace \o date_pattern_flexible(2)
\* (expiration date|expires on|term ends)[:\s]*<date_pattern_flexible>
expiration_date_regex ==
    Group(1, Keywords(expiration_date_keywords)) \o ColonSpace \o date_pattern_flexible(2)
\* (governing law|jurisdiction|...)[:\s]*(.+?[\.\n]) under re.DOTALL
governing_law_regex ==
    Group(1, Keywords(governing_law_keywords)) \o ColonSpace
    \o Group(2, LazyPlus(AnyChar) \o <<Cls({".", "\n"})>>)

\* the group the code reads from a match of a date rule of the contract
EffectiveDateGroup == 1
ExpirationDateGroup == 1

\* the widths of the clause pattern (.{0,300}term.{0,500})
ClauseBefore == 300
ClauseAfter == 500

(***************************************************************************)
(* extract_contract_data(text), with dates the DATE entities of the text   *)
(* and party_ents the ORG and PERSON entities the tagger finds in the      *)
(* party text, both in the tagger's order.                                 *)
(***************************************************************************)
\* (lines_before_keyword[-1] + title_match.group(2)).strip()
ContractTitle(text) ==
    LET title_match == Search(title_regex, text)
        lines_before_keyword == SplitLines(GroupText(text, title_match, 1))
    IN  IF title_match.ok
        THEN Some(Strip(lines_before_keyword[Len(lines_before_keyword)]
                        \o GroupText(text, title_match, 2)))
        ELSE None

\* "\n".join(party_keywords.group(2).split('\n')[0:5]): the text handed to the
\* tagger; None when no party keyword is found
PartyText(text) ==
    LET party_keywords == Search(party_regex, text)
        lines == SplitLines(GroupText(text, party_keywords, 2))
    IN  IF party_keywords.ok
        THEN Some(JoinLines(SubSeq(lines, 1, IF Len(lines) < 5 THEN Len(lines) ELSE 5)))
        ELSE None

\* the entity texts stripped, each appended unless it is already in the list
RECURSIVE AppendNew(_, _)
AppendNew(names, ents) ==
    IF Len(ents) = 0 THEN names
    ELSE AppendNew(IF \E k \in DOMAIN names : names[k] = Strip(ents[1])
                   THEN names ELSE Append(names, Strip(ents[1])),
                   Tail(ents))

PartyNames(text, party_ents) ==
    IF PartyText(text).some THEN AppendNew(<<>>, party_ents) ELSE <<>>

\* the keyword-anchored effective date when the rule matches, else the first
\* DATE entity when there is one
EffectiveDate(text, dates) ==
    LET effective_date_match == Search(effective_date_regex, text)
    IN  IF effective_date_match.ok
        THEN FieldOf(text, effective_date_match, EffectiveDateGroup)
        ELSE IF Len(dates) > 0 THEN Some(dates[1]) ELSE None

ExpirationDate(text) ==
    FieldOf(text, Search(expiration_date_regex, text), ExpirationDateGroup)

\* (governing_law_match.group(1) + governing_law_match.group(2)).strip()
GoverningLaw(text) ==
    LET governing_law_match == Search(governing_law_regex, text)
    IN  IF governing_law_match.ok
        THEN Some(Strip(GroupText(text, governing_law_match, 1)
                        \o GroupText(text, governing_law_match, 2)))
        ELSE None

\* re.search('(.{0,300}' + term + '.{0,500})', text) under re.DOTALL and
\* re.IGNORECASE, group(1) stripped.  The search is resolved on the positions
\* at which the term stands: the match starts at the leftmost position that has
\* an occurrence at most 300 characters after it, the greedy .{0,300} runs to
\* the last such occurrence, and .{0,500} takes up to 500 characters after it.
ClauseSearch(term, text) ==
    LET occ == {q \in 1..(Len(text) - Len(term) + 1) :
                  Run(text, Lit(term), q, NoMatch.caps).ok}
        first == SetMin(occ)
        b == IF first <= ClauseBefore + 1 THEN 1 ELSE first - ClauseBefore
        q == SetMax({o \in occ : o <= b + ClauseBefore})
        e == IF q + Len(term) + ClauseAfter - 1 < Len(text)
             THEN q + Len(term) + ClauseAfter - 1 ELSE Len(text)
    IN  IF occ = {} THEN None ELSE Some(Strip(SubSeq(text, b, e)))

\* for term in terms: the first term with a match gives the clause (break)
RECURSIVE FirstClause(_, _, _)
FirstClause(terms, k, text) ==
    IF k > Len(terms) THEN None
    ELSE LET clause_match == ClauseSearch(terms[k], text)
         IN  IF clause_match.some THEN clause_match ELSE FirstClause(terms, k + 1, text)

extract_contract_data(text, dates, party_ents) ==
    ("Contract Title" :> ContractTitle(text))
    @@ ("Party Names" :> PartyNames(text, party_ents))
    @@ ("Effective Date" :> EffectiveDate(text, dates))
    @@ ("Expiration Date" :> ExpirationDate(text))
    @@ ("Governing Law" :> GoverningLaw(text))
    @@ ("Key Clauses" :> [c \in ClauseNames |-> FirstClause(keywords[c], 1, text)])

\* ", ".join(names)
RECURSIVE JoinNames(_)
JoinNames(names) ==
    IF Len(names) = 0 THEN <<>>
    ELSE IF Len(names) = 1 THEN names[1]
    ELSE names[1] \o <<",", " ">> \o JoinNames(Tail(names))

ContractColumns ==
    {"Contract Title", "Party Names", "Effective Date", "Expiration Date", "Governing Law",
     "Payment Terms Clause", "Termination Clause", "Confidentiality Clause",
     "Intellectual Property Clause", "Limitation of Liability Clause",
     "Dispute Resolution Clause"}

\* a list holding the single row of a contract
structure_contract_data_for_excel(extracted_contract_data) ==
    <<[c \in ContractColumns |->
         CASE c = "Party Names" -> Some(JoinNames(extracted_contract_data["Party Names"]))
           [] c = "Payment Terms Clause" ->
                extracted_contract_data["Key Clauses"]["Payment Terms"]
           [] c \in ClauseNames -> extracted_contract_data["Key Clauses"][c]
           [] OTHER -> extracted_contract_data[c]]>>

\* dummy_pdf_text: the placeholder text of the PDF branch
dummy_pdf_text ==
    <<"\n"," "," "," "," "," "," "," "," ","C","O","N","F","I","D","E","N","T","I","A","L"," ","A",
    "G","R","E","E","M","E","N","T","\n","\n"," "," "," "," "," "," "," "," ","E","f","f","e","c",
    "t","i","v","e"," ","D","a","t","e",":"," ","J","a","n","u","a","r","y"," ","1",","," ","2","0",
    "2","4","\n","\n"," "," "," "," "," "," "," "," ","P","a","r","t","i","e","s",":","\n"," "," ",
    " "," "," "," "," "," ","A","c","m","e"," ","C","o","r","p","o","r","a","t","i","o","n"," ","(",
    "\"","A","c","m","e","\"",")","\n"," "," "," "," "," "," "," "," ","B","e","t","a"," ","S","o",
    "l","u","t","i","o","n","s"," ","(","\"","B","e","t","a","\"",")","\n","\n"," "," "," "," "," ",
    " "," "," ","T","h","i","s"," ","a","g","r","e","e","m","e","n","t"," ","o","u","t","l","i","n",
    "e","s"," ","t","h","e"," ","t","e","r","m","s"," ","o","f"," ","c","o","l","l","a","b","o","r",
    "a","t","i","o","n",".",".",".","\n","\n"," "," "," "," "," "," "," "," ","P","a","y","m","e",
    "n","t"," ","T","e","r","m","s",":"," ","A","c","m","e"," ","w","i","l","l"," ","p","a","y"," ",
    "B","e","t","a"," ","w","i","t","h","i","n"," ","3","0"," ","d","a","y","s"," ","o","f"," ","s",
    "e","r","v","i","c","e"," ","c","o","m","p","l","e","t","i","o","n",".","\n","\n"," "," "," ",
    " "," "," "," "," ","T","e","r","m"," ","a","n","d"," ","T","e","r","m","i","n","a","t","i","o",
    "n",":"," ","T","h","i","s"," ","a","g","r","e","e","m","e","n","t"," ","i","s"," ","f","o","r",
    " ","a"," ","p","e","r","i","o","d"," ","o","f"," ","o","n","e"," ","y","e","a","r"," ","a","n",
    "d"," ","c","a","n"," ","b","e"," ","t","e","r","m","i","n","a","t","e","d"," ","w","i","t","h",
    " ","6","0"," ","d","a","y","s"," ","n","o","t","i","c","e",".","\n","\n"," "," "," "," "," ",
    " "," "," ","C","o","n","f","i","d","e","n","t","i","a","l","i","t","y",":"," ","B","o","t","h",
    " ","p","a","r","t","i","e","s"," ","a","g","r","e","e"," ","t","o"," ","k","e","e","p"," ","a",
    "l","l"," ","i","n","f","o","r","m","a","t","i","o","n"," ","c","o","n","f","i","d","e","n","t",
    "i","a","l",".","\n","\n"," "," "," "," "," "," "," "," ","G","o","v","e","r","n","i","n","g",
    " ","L","a","w",":"," ","T","h","i","s"," ","A","g","r","e","e","m","e","n","t"," ","s","h","a",
    "l","l"," ","b","e"," ","g","o","v","e","r","n","e","d"," ","b","y"," ","t","h","e"," ","l","a",
    "w","s"," ","o","f"," ","t","h","e"," ","S","t","a","t","e"," ","o","f"," ","C","a","l","i","f",
    "o","r","n","i","a",".","\n"," "," "," "," "," "," "," "," ">>

(***************************************************************************)
(* generate_excel_file(invoice_data_list, contract_data_list).  write_ok   *)
(* is the outcome of the spreadsheet writer, the external collaborator.    *)
(* A sheet is written for each list that is not empty; a workbook without  *)
(* a sheet cannot be saved, so the writer raises when both are empty.  The *)
(* try/except turns every exception into an st.error message and the      *)
(* return value None.  The result carries the two lists as the call leaves *)
(* them.                                                                   *)
(***************************************************************************)
Workbook(invoice_data_list, contract_data_list) ==
    [Invoices |-> invoice_data_list, Contracts |-> contract_data_list]

\* a faulty variant of generate_excel_file without the try/except: the
\* exception of the writer escapes to the caller
GenerateExcelFileRaising(invoice_data_list, contract_data_list, write_ok) ==
    LET no_sheet == Len(invoice_data_list) = 0 /\ Len(contract_data_list) = 0
        exception == no_sheet \/ ~write_ok
    IN  [raised |-> exception,
         error |-> FALSE,
         value |-> IF exception THEN None
                   ELSE Some(Workbook(invoice_data_list, contract_data_list)),
         invoice_data_list |-> invoice_data_list,
         contract_data_list |-> contract_data_list]

generate_excel_file(invoice_data_list, contract_data_list, write_ok) ==
    LET no_sheet == Len(invoice_data_list) = 0 /\ Len(contract_data_list) = 0
        exception == no_sheet \/ ~write_ok
    IN  [raised |-> FALSE,
         error |-> exception,
         value |-> IF exception THEN None
                   ELSE Some(Workbook(invoice_data_list, contract_data_list)),
         invoice_data_list |-> invoice_data_list,
         contract_data_list |-> contract_data_list]

(***************************************************************************)
(* The inputs of a run: the uploaded file's type, the text the OCR reads   *)
(* from an image, and the entities the tagger reports.                     *)
(***************************************************************************)
\* the largest number of lines of an OCR text
MaxLines == 2

\* 'Invoice Number: INV-2024-001'
LineInvoiceNumber == <<"I","n","v","o","i","c","e"," ","N","u","m","b","e","r",":"," ","I","N","V","-","2","0","2","4","-","0","0","1">>
\* 'Total: $1,234.56'
LineTotal == <<"T","o","t","a","l",":"," ","$","1",",","2","3","4",".","5","6">>
\* 'Invoice Date: 01/02/2024'
LineInvoiceDate == <<"I","n","v","o","i","c","e"," ","D","a","t","e",":"," ","0","1","/","0","2","/","2","0","2","4">>
\* 'Description Qty Price'
LineHeader == <<"D","e","s","c","r","i","p","t","i","o","n"," ","Q","t","y"," ","P","r","i","c","e">>
\* 'Widget A   3   $10.00   $30.00'
LineWidgetA == <<"W","i","d","g","e","t"," ","A"," "," "," ","3"," "," "," ","$","1","0",".","0","0"," "," "," ","$","3","0",".","0","0">>
\* 'Item B three $5.00 $15.00'
LineBadQuantity == <<"I","t","e","m"," ","B"," ","t","h","r","e","e"," ","$","5",".","0","0"," ","$","1","5",".","0","0">>
\* 'Item C 1 $2.00'
LinePartialRow == <<"I","t","e","m"," ","C"," ","1"," ","$","2",".","0","0">>
\* '5 Nuts 6 $1.00 $6.00'
LineNuts == <<"5"," ","N","u","t","s"," ","6"," ","$","1",".","0","0"," ","$","6",".","0","0">>
\* 'Amount Due: $9.00'
LineAmountDue == <<"A","m","o","u","n","t"," ","D","u","e",":"," ","$","9",".","0","0">>
OcrLines ==
    {LineInvoiceNumber, LineInvoiceDate,
     LineTotal, LineAmountDue,
     LineHeader, LineWidgetA,
     LineBadQuantity, LinePartialRow,
     LineNuts}

\* the texts an image can read as: one to MaxLines of the lines above
OcrTexts == {JoinLines(ls) : ls \in UNION {[1..n -> OcrLines] : n \in 1..MaxLines}}
\* what ocr_image_to_text returns: None after an exception, else the text,
\* which may be empty
OcrResults == {None, Some(<<>>)} \cup {Some(t) : t \in OcrTexts}

\* uploaded_file.type: one type for each branch of the script; "image/jpeg"
\* takes the branch of "image/png" through the same membership test
FileTypes == {"image/png", "application/pdf", "application/octet-stream"}

\* doc.ents with label DATE: the tagger is a black box; either no entity or
\* one entity, the first line of the text
TaggerDates(text) == {<<>>, <<SplitLines(text)[1]>>}

\* party_doc.ents with label ORG or PERSON: none, the first non-blank line of
\* the party text, the first two, or the first one found twice
NonBlank(line) == Len(Strip(line)) > 0
TaggerParties(text) ==
    LET party_text == PartyText(text)
        names == IF party_text.some THEN SelectSeq(SplitLines(party_text.v), NonBlank)
                 ELSE <<>>
    IN  IF Len(names) = 0 THEN {<<>>}
        ELSE {<<>>, <<names[1]>>, <<names[1], names[1]>>,
              SubSeq(names, 1, IF Len(names) < 2 THEN 1 ELSE 2)}

\* a Python value is truthy: neither None nor empty
Truthy(x) == x.some /\ x.v # <<>>

(***************************************************************************)
(* The script of the app, one action per step of a run.                    *)
(***************************************************************************)
VARIABLES
    pc,                       \* the position in the script
    file_type,                \* file_details["FileType"]
    extracted_text,
    extracted_data,
    structured_invoice_data,
    structured_contract_data,
    excel_bytes,
    download_offered,         \* st.download_button was shown
    calls,                    \* the functions called in this run, in order
    errors                    \* the st.error messages of this run, in order

vars == <<pc, file_type, extracted_text, extracted_data, structured_invoice_data,
          structured_contract_data, excel_bytes, download_offered, calls, errors>>

ImageTypes == {"image/png", "image/jpeg"}

Init ==
    /\ pc = "idle"
    /\ file_type = "none"
    /\ extracted_text = None
    /\ extracted_data = None
    /\ structured_invoice_data = None
    /\ structured_contract_data = None
    /\ excel_bytes = None
    /\ download_offered = FALSE
    /\ calls = <<>>
    /\ errors = <<>>

\* uploaded_file is not None: a file of some type arrives
Upload ==
    /\ pc = "idle"
    /\ \E t \in FileTypes : file_type' = t
    /\ pc' = "uploaded"
    /\ UNCHANGED <<extracted_text, extracted_data, structured_invoice_data,
                   structured_contract_data, excel_bytes, download_offered, calls, errors>>

\* a faulty variant of OcrImage that tests the text against None only, so an
\* empty text goes on to the extraction
OcrImageNotNone ==
    /\ pc = "uploaded"
    /\ file_type \in ImageTypes
    /\ \E r \in OcrResults :
         /\ extracted_text' = r
         /\ errors' = IF r = None THEN Append(errors, "ocr") ELSE errors
         /\ pc' = IF r.some THEN "image_text" ELSE "done"
    /\ calls' = Append(calls, "ocr_image_to_text")
    /\ UNCHANGED <<file_type, extracted_data, structured_invoice_data,
                   structured_contract_data, excel_bytes, download_offered>>

\* extracted_text = ocr_image_to_text(uploaded_file); if extracted_text: ...
\* ocr_image_to_text returns None with an st.error message after an exception
OcrImage ==
    /\ pc = "uploaded"
    /\ file_type \in ImageTypes
    /\ \E r \in OcrResults :
         /\ extracted_text' = r
         /\ errors' = IF r = None THEN Append(errors, "ocr") ELSE errors
         /\ pc' = IF Truthy(r) THEN "image_text" ELSE "done"
    /\ calls' = Append(calls, "ocr_image_to_text")
    /\ UNCHANGED <<file_type, extracted_data, structured_invoice_data,
                   structured_contract_data, excel_bytes, download_offered>>

\* extracted_data = extract_invoice_data(extracted_text)
ExtractInvoice ==
    /\ pc = "image_text"
    /\ \E dates \in TaggerDates(extracted_text.v) :
         extracted_data' = Some(extract_invoice_data(extracted_text.v, dates))
    /\ calls' = Append(calls, "extract_invoice_data")
    /\ pc' = "image_extracted"
    /\ UNCHANGED <<file_type, extracted_text, structured_invoice_data,
                   structured_contract_data, excel_bytes, download_offered, errors>>

\* structured_invoice_data = structure_invoice_data_for_excel(extracted_data)
\* structured_contract_data = []
StructureInvoice ==
    /\ pc = "image_extracted"
    /\ structured_invoice_data' = Some(structure_invoice_data_for_excel(extracted_data.v))
    /\ structured_contract_data' = Some(<<>>)
    /\ calls' = Append(calls, "structure_invoice_data_for_excel")
    /\ pc' = "image_structured"
    /\ UNCHANGED <<file_type, extracted_text, extracted_data, excel_bytes, download_offered,
                   errors>>

\* excel_bytes = generate_excel_file(structured_invoice_data, structured_contract_data)
\* in either branch; an exception that escapes ends the run
Export(next) ==
    \E write_ok \in BOOLEAN :
       LET r == generate_excel_file(structured_invoice_data.v, structured_contract_data.v,
                                    write_ok)
       IN  /\ excel_bytes' = r.value
           /\ structured_invoice_data' = Some(r.invoice_data_list)
           /\ structured_contract_data' = Some(r.contract_data_list)
           /\ pc' = IF r.raised THEN "crashed" ELSE next
           /\ calls' = Append(calls, "generate_excel_file")
           /\ errors' = IF r.error THEN Append(errors, "excel") ELSE errors
           /\ UNCHANGED <<file_type, extracted_text, extracted_data, download_offered>>

ExportImage == pc = "image_structured" /\ Export("image_exported")

\* if excel_bytes: st.download_button(...)
OfferDownload ==
    /\ download_offered' = Truthy(excel_bytes)
    /\ pc' = "done"
    /\ UNCHANGED <<file_type, extracted_text, extracted_data, structured_invoice_data,
                   structured_contract_data, excel_bytes, calls, errors>>

OfferDownloadImage == pc = "image_exported" /\ OfferDownload

\* extracted_text = dummy_pdf_text
PdfText ==
    /\ pc = "uploaded"
    /\ file_type = "application/pdf"
    /\ extracted_text' = Some(dummy_pdf_text)
    /\ pc' = IF Truthy(Some(dummy_pdf_text)) THEN "pdf_text" ELSE "done"
    /\ UNCHANGED <<file_type, extracted_data, structured_invoice_data,
                   structured_contract_data, excel_bytes, download_offered, calls, errors>>

\* extracted_data = extract_contract_data(extracted_text)
ExtractContract ==
    /\ pc = "pdf_text"
    /\ \E dates \in TaggerDates(extracted_text.v), party_ents \in TaggerParties(extracted_text.v) :
         extracted_data' = Some(extract_contract_data(extracted_text.v, dates, party_ents))
    /\ calls' = Append(calls, "extract_contract_data")
    /\ pc' = "pdf_extracted"
    /\ UNCHANGED <<file_type, extracted_text, structured_invoice_data,
                   structured_contract_data, excel_bytes, download_offered, errors>>

\* structured_contract_data = structure_contract_data_for_excel(extracted_data)
\* structured_invoice_data = []
StructureContract ==
    /\ pc = "pdf_extracted"
    /\ structured_contract_data' = Some(structure_contract_data_for_excel(extracted_data.v))
    /\ structured_invoice_data' = Some(<<>>)
    /\ calls' = Append(calls, "structure_contract_data_for_excel")
    /\ pc' = "pdf_structured"
    /\ UNCHANGED <<file_type, extracted_text, extracted_data, excel_bytes, download_offered,
                   errors>>

ExportPdf == pc = "pdf_structured" /\ Export("pdf_exported")

OfferDownloadPdf == pc = "pdf_exported" /\ OfferDownload

\* else: st.error("Unsupported file type ...")
Unsupported ==
    /\ pc = "uploaded"
    /\ file_type \notin ImageTypes \cup {"application/pdf"}
    /\ errors' = Append(errors, "unsupported")
    /\ pc' = "done"
    /\ UNCHANGED <<file_type, extracted_text, extracted_data, structured_invoice_data,
                   structured_contract_data, excel_bytes, download_offered, calls>>

\* the next interaction runs the script again from the top
Rerun ==
    /\ pc = "done"
    /\ pc' = "idle"
    /\ file_type' = "none"
    /\ extracted_text' = None
    /\ extracted_data' = None
    /\ structured_invoice_data' = None
    /\ structured_contract_data' = None
    /\ excel_bytes' = None
    /\ download_offered' = FALSE
    /\ calls' = <<>>
    /\ errors' = <<>>

Next ==
    \/ Upload
    \/ OcrImage
    \/ ExtractInvoice
    \/ StructureInvoice
    \/ ExportImage
    \/ OfferDownloadImage
    \/ PdfText
    \/ ExtractContract
    \/ StructureContract
    \/ ExportPdf
    \/ OfferDownloadPdf
    \/ Unsupported
    \/ Rerun

Spec == Init /\ [][Next]_vars


(***************************************************************************)
(* generate_excel_file on its own: a caller holds two row lists, calls the *)
(* export and, after a failure, calls it again with the lists it holds.    *)
(* The script never passes two empty lists, so this specification draws    *)
(* the lists directly: any invoice rows the structurer can produce or      *)
(* none, the rows of the placeholder contract or none.                     *)
(***************************************************************************)
\* the largest number of calls of generate_excel_file by one caller
MaxExportCalls == 2

ExportInvoiceLists ==
    {<<>>} \cup {structure_invoice_data_for_excel(extract_invoice_data(t, <<>>)) : t \in OcrTexts}

ExportContractLists ==
    {<<>>, structure_contract_data_for_excel(extract_contract_data(dummy_pdf_text, <<>>, <<>>))}

InitExport ==
    /\ pc = "export_ready"
    /\ file_type = "none"
    /\ extracted_text = None
    /\ extracted_data = None
    /\ \E l \in ExportInvoiceLists : structured_invoice_data = Some(l)
    /\ \E l \in ExportContractLists : structured_contract_data = Some(l)
    /\ excel_bytes = None
    /\ download_offered = FALSE
    /\ calls = <<>>
    /\ errors = <<>>

\* excel_bytes = generate_excel_file(invoice rows, contract rows)
ExportCall == pc = "export_ready" /\ Export("export_returned")

\* after None came back the caller exports again, with the lists it holds
ExportRetry ==
    /\ pc = "export_returned"
    /\ excel_bytes = None
    /\ Len(calls) < MaxExportCalls
    /\ Export("export_returned")

NextExport == ExportCall \/ ExportRetry

SpecExport == InitExport /\ [][NextExport]_vars

(***************************************************************************)
(* Occurrence of a word in a text, letter case ignored.                    *)
(***************************************************************************)
OccursAt(w, text, p) ==
    /\ p + Len(w) - 1 <= Len(text)
    /\ \A j \in DOMAIN w : text[p + j - 1] \in CI(w[j])

Occurs(w, text) == \E p \in DOMAIN text : OccursAt(w, text, p)

(***************************************************************************)
(* Properties of the structurer, the extractors and the export.            *)
(***************************************************************************)
\* an image run holds the record of extract_invoice_data and nothing later
InvoiceExtracted == pc = "image_extracted"

\* an image run holds the rows of structure_invoice_data_for_excel
InvoiceStructured == pc = "image_structured"

\* C1: structure_invoice_data_for_excel returns max(1, n) rows for a record
\* with n line items, and every row carries the ten header fields with the
\* values of the record.
C1_FlattenRowCount ==
    InvoiceStructured =>
        LET record == extracted_data.v
            rows == structured_invoice_data.v
            n == Len(record["Line Items"])
        IN  /\ Len(rows) = (IF n > 1 THEN n ELSE 1)
            /\ \A k \in DOMAIN rows :
                 \A f \in HeaderFields : f \in DOMAIN rows[k] /\ rows[k][f] = record[f]

\* a record with two line items and a header field found, flattened to two rows
C1_TwoItemRows ==
    /\ InvoiceStructured
    /\ Len(extracted_data.v["Line Items"]) = 2
    /\ Len(structured_invoice_data.v) = 2
    /\ \E f \in HeaderFields : extracted_data.v[f].some

\* no line of the text holds one of the column-header words
NoHeaderWord(text) ==
    \A i \in DOMAIN SplitLines(text) :
       \A k \in DOMAIN header_words : ~Occurs(header_words[k], SplitLines(text)[i])

\* C5: when no line of the text holds a column-header word, the line items
\* of the record are the empty sequence and the extraction has returned
\* without an error message, also when rows of the text fit the row pattern.
C5_NoHeaderNoItems ==
    (InvoiceExtracted /\ NoHeaderWord(extracted_text.v)) =>
        /\ extracted_data.v["Line Items"] = <<>>
        /\ errors = <<>>

\* a text without a header word whose single line fits the row pattern
C5_RowsWithoutHeader ==
    /\ InvoiceExtracted
    /\ NoHeaderWord(extracted_text.v)
    /\ extracted_data.v["Line Items"] = <<>>
    /\ ItemsIn(extracted_text.v) # <<>>

\* a step that calls generate_excel_file
ExportStep == calls' = Append(calls, "generate_excel_file")

\* the call of this step failed: no sheet to write, or the writer failed
ExportFailed ==
    \/ errors' # errors
    \/ pc' = "crashed"
    \/ (structured_invoice_data.v = <<>> /\ structured_contract_data.v = <<>>)

\* C10: a call of generate_excel_file that fails, the call with two empty
\* lists included, returns None to its caller instead of raising, and every
\* call leaves both row lists as they were, so the caller can export again.
C10_ExportFailureReturned ==
    [][ExportStep =>
         /\ structured_invoice_data' = structured_invoice_data
         /\ structured_contract_data' = structured_contract_data
         /\ ExportFailed => (excel_bytes' = None /\ pc' # "crashed")]_vars

\* two empty lists: both calls came back None and the lists are still there
C10_EmptyListsRetried ==
    /\ pc = "export_returned"
    /\ structured_invoice_data = Some(<<>>)
    /\ structured_contract_data = Some(<<>>)
    /\ excel_bytes = None
    /\ calls = <<"generate_excel_file", "generate_excel_file">>
    /\ errors = <<"excel", "excel">>


\* the contract record of a PDF run, and nothing later
ContractExtracted == pc = "pdf_extracted"

\* the value a rule's match captured: its second group, trimmed
CapturedValue(text, m) == Strip(GroupText(text, m, 2))

\* C2: whenever a rule's keyword is followed by text matching the rule's
\* value pattern, the field is the captured value, trimmed, and not the
\* keyword: Invoice Number, Subtotal Amount, Tax Amount and Total Amount of
\* an invoice, Effective Date and Expiration Date of a contract; the text
\* "Invoice Number: INV-2024-001", "Total: $1,234.56" gives Invoice Number
\* "INV-2024-001" and Total Amount "$1,234.56".
C2_CapturedValueNotKeyword ==
    /\ InvoiceExtracted =>
         LET text == extracted_text.v
             record == extracted_data.v
             number == Search(invoice_number_regex, text)
             subtotal == Search(subtotal_regex, text)
             tax == Search(tax_regex, text)
             total == Search(total_regex, text)
         IN  /\ number.ok => record["Invoice Number"] = Some(CapturedValue(text, number))
             /\ subtotal.ok => record["Subtotal Amount"] = Some(CapturedValue(text, subtotal))
             /\ tax.ok => record["Tax Amount"] = Some(CapturedValue(text, tax))
             /\ total.ok => record["Total Amount"] = Some(CapturedValue(text, total))
             /\ text = JoinLines(<<LineInvoiceNumber, LineTotal>>) =>
                  /\ record["Invoice Number"] = Some(<<"I","N","V","-","2","0","2","4","-","0","0","1">>)
                  /\ record["Total Amount"] = Some(<<"$","1",",","2","3","4",".","5","6">>)
    /\ ContractExtracted =>
         LET text == extracted_text.v
             record == extracted_data.v
             effective == Search(effective_date_regex, text)
             expiration == Search(expiration_date_regex, text)
         IN  /\ effective.ok => record["Effective Date"] = Some(CapturedValue(text, effective))
             /\ expiration.ok =>
                  record["Expiration Date"] = Some(CapturedValue(text, expiration))

\* the keywords of a list that have a keyword+value match somewhere in the text
KeywordsWithMatch(kws, rule(_), text) ==
    {k \in DOMAIN kws : Search(rule(<<kws[k]>>), text).ok}

\* the value anchored to the earliest-listed keyword that has a match
PriorityValue(kws, rule(_), text) ==
    LET k == SetMin(KeywordsWithMatch(kws, rule, text))
    IN  CapturedValue(text, Search(rule(<<kws[k]>>), text))

\* C3: the keywords of a rule are tried in their listed order and the first
\* one with a keyword+value match anywhere in the text gives the value,
\* wherever the matches of later-listed keywords lie in the text: the
\* Invoice Number is the value of the earliest-listed keyword with a match,
\* and so is the value of the match the tax and the total rule select.
C3_KeywordPriorityOrder ==
    InvoiceExtracted =>
        LET text == extracted_text.v
            record == extracted_data.v
            tax == Search(tax_regex, text)
            total == Search(total_regex, text)
        IN  /\ KeywordsWithMatch(invoice_number_keywords, invoice_number_re, text) # {} =>
                 record["Invoice Number"] =
                     Some(PriorityValue(invoice_number_keywords, invoice_number_re, text))
            /\ tax.ok =>
                 CapturedValue(text, tax) = PriorityValue(tax_keywords, amount_re, text)
            /\ total.ok =>
                 CapturedValue(text, total) = PriorityValue(total_keywords, amount_re, text)

\* C4: the tagger's DATE entities are only a fallback: when the text holds a
\* keyword-anchored date, Invoice Date (Effective Date for a contract) is
\* that date whatever the tagger reports, an empty list included, and a
\* tagger date appears only when the text holds no keyword-anchored date.
C4_TaggerOnlyFallback ==
    /\ InvoiceExtracted =>
         LET text == extracted_text.v
             record == extracted_data.v
             date == Search(date_regex, text)
         IN  IF date.ok
             THEN record["Invoice Date"] = Some(CapturedValue(text, date))
             ELSE record["Invoice Date"] \in
                      {None} \cup {Some(d[1]) : d \in TaggerDates(text) \ {<<>>}}
    /\ ContractExtracted =>
         LET text == extracted_text.v
             record == extracted_data.v
             date == Search(effective_date_regex, text)
         IN  date.ok => record["Effective Date"] = Some(CapturedValue(text, date))

\* the line item the row "Widget A   3   $10.00   $30.00" stands for
WidgetAItem ==
    ("Item Description" :> <<"W","i","d","g","e","t"," ","A">>)
    @@ ("Quantity" :> 3)
    @@ ("Unit Price" :> <<"$","1","0",".","0","0">>)
    @@ ("Line Item Total" :> <<"$","3","0",".","0","0">>)

\* the lines of the candidate section of a text
SectionLines(text) ==
    IF SectionText(text).some THEN SplitLines(SectionText(text).v) ELSE <<>>

\* C6: the row "Widget A   3   $10.00   $30.00" in the candidate section
\* parses to description "Widget A", quantity 3, unit price "$10.00" and
\* line total "$30.00", and the description of every emitted line item is
\* text of one row: it never runs over a line break into the header line or
\* a preceding line.
C6_DescriptionOfOwnRow ==
    InvoiceExtracted =>
        LET text == extracted_text.v
            items == extracted_data.v["Line Items"]
            lines == SectionLines(text)
        IN  /\ (\E i \in DOMAIN lines : lines[i] = LineWidgetA) =>
                   \E k \in DOMAIN items : items[k] = WidgetAItem
            /\ \A k \in DOMAIN items :
                 \A j \in DOMAIN items[k]["Item Description"] :
                    items[k]["Item Description"][j] # "\n"

\* classify(text) of the specification; the code has no such function
classify(text) ==
    IF Occurs(<<"i","n","v","o","i","c","e">>, text) THEN "invoice"
    ELSE IF Occurs(<<"a","g","r","e","e","m","e","n","t">>, text) \/ Occurs(<<"c","o","n","t","r","a","c","t">>, text) THEN "contract"
    ELSE "ambiguous"

\* C7: the pipeline of a processing run follows classify(text): the invoice
\* pipeline for "invoice", the contract pipeline for "contract", and for an
\* ambiguous text both pipelines, with both result sets in hand at the end.
C7_ClassifierDrivesPipelines ==
    (pc = "done" /\ Truthy(extracted_text)) =>
        LET kind == classify(extracted_text.v)
            ran(f) == \E i \in DOMAIN calls : calls[i] = f
        IN  /\ kind = "invoice" => ran("extract_invoice_data")
            /\ kind = "contract" => ran("extract_contract_data")
            /\ kind = "ambiguous" =>
                 /\ ran("extract_invoice_data") /\ ran("extract_contract_data")
                 /\ Truthy(structured_invoice_data) /\ Truthy(structured_contract_data)

\* C8: absence is kept from the record to the rows: a field the extraction
\* did not find is None in the record and None, never "", in every row, and
\* a field found as "" stays "".
C8_AbsencePreserved ==
    /\ InvoiceStructured =>
         LET text == extracted_text.v
             record == extracted_data.v
             rows == structured_invoice_data.v
         IN  /\ ~Search(invoice_number_regex, text).ok => record["Invoice Number"] = None
             /\ ~Search(vendor_regex, text).ok => record["Vendor Name"] = None
             /\ ~Search(total_regex, text).ok => record["Total Amount"] = None
             /\ \A k \in DOMAIN rows : \A f \in HeaderFields : rows[k][f] = record[f]
    /\ pc = "pdf_structured" =>
         LET record == extracted_data.v
             row == structured_contract_data.v[1]
         IN  /\ row["Party Names"] =
                   IF record["Party Names"] = <<>> THEN None
                   ELSE Some(JoinNames(record["Party Names"]))
             /\ \A c \in {"Contract Title", "Effective Date", "Expiration Date",
                          "Governing Law"} : row[c] = record[c]

\* quantity, unit price and line total of each line item, in order
ItemNumbers(items) ==
    [k \in DOMAIN items |->
       <<items[k]["Quantity"], items[k]["Unit Price"], items[k]["Line Item Total"]>>]

\* the line items of the lines that are well-formed rows, each parsed alone
RECURSIVE WellFormedRows(_)
WellFormedRows(lines) ==
    IF lines = <<>> THEN <<>>
    ELSE ItemsIn(lines[1]) \o WellFormedRows(Tail(lines))

\* C9: a row that fails to parse (a quantity that is no integer, a row with
\* only some of the four fields) is skipped and the scan goes on: the line
\* items emitted are, in order, those of the well-formed rows of the section,
\* each with its four fields present, and no error is reported.
C9_BadRowsSkipped ==
    InvoiceExtracted =>
        LET items == extracted_data.v["Line Items"]
        IN  /\ errors = <<>>
            /\ \A k \in DOMAIN items :
                 DOMAIN items[k] =
                     {"Item Description", "Quantity", "Unit Price", "Line Item Total"}
            /\ ItemNumbers(items) =
                   ItemNumbers(WellFormedRows(SectionLines(extracted_text.v)))


\* C11: with line items in the record, the i-th row of
\* structure_invoice_data_for_excel carries the four fields of the i-th line
\* item, so the rows follow the items in their order, none dropped, repeated
\* or moved; without line items the single row has its four line-item fields
\* None.  In both cases every row has the same 14 keys in the same order.
C11_RowsFollowItems ==
    InvoiceStructured =>
        LET record == extracted_data.v
            rows == structured_invoice_data.v
            items == record["Line Items"]
            row_keys == RowKeys(record)
        IN  /\ Len(items) > 0 =>
                 /\ DOMAIN rows = DOMAIN items
                 /\ \A i \in DOMAIN items :
                      /\ rows[i]["Line Item Description"] = Some(items[i]["Item Description"])
                      /\ rows[i]["Quantity"] = Some(items[i]["Quantity"])
                      /\ rows[i]["Unit Price"] = Some(items[i]["Unit Price"])
                      /\ rows[i]["Line Item Total"] = Some(items[i]["Line Item Total"])
            /\ Len(items) = 0 =>
                 /\ Len(rows) = 1
                 /\ \A c \in LineItemColumns : rows[1][c] = None
            /\ Len(row_keys) = 14
            /\ Cardinality(KeySet(row_keys)) = 14
            /\ HeaderOnlyRowKeys = ItemRowKeys
            /\ \A k \in DOMAIN rows : DOMAIN rows[k] = KeySet(row_keys)

\* two line items that differ in every field, each in the row of its index
C11_TwoDifferentItems ==
    /\ InvoiceStructured
    /\ Len(extracted_data.v["Line Items"]) = 2
    /\ \A f \in DOMAIN extracted_data.v["Line Items"][1] :
          extracted_data.v["Line Items"][1][f] # extracted_data.v["Line Items"][2][f]
    /\ structured_invoice_data.v[2]["Quantity"] =
           Some(extracted_data.v["Line Items"][2]["Quantity"])


\* the functions the image branch calls, in the order of the script
ImageStages ==
    <<"ocr_image_to_text", "extract_invoice_data", "structure_invoice_data_for_excel",
      "generate_excel_file">>

\* C12: a run of the image branch goes through OCR, extraction, structuring
\* and export in this order and offers the download last; when the OCR
\* returns None or an empty text the run ends at once, with no extraction,
\* structuring or export and no download; a download is offered only after
\* an export that returned bytes.
C12_ImageStagesInOrder ==
    file_type \in ImageTypes =>
        /\ Len(calls) <= Len(ImageStages)
        /\ calls = SubSeq(ImageStages, 1, Len(calls))
        /\ (calls # <<>> /\ ~Truthy(extracted_text)) =>
               /\ calls = <<"ocr_image_to_text">>
               /\ pc = "done"
               /\ extracted_data = None
               /\ structured_invoice_data = None
               /\ excel_bytes = None
               /\ ~download_offered
        /\ download_offered =>
               /\ calls = ImageStages
               /\ Truthy(excel_bytes)
               /\ pc = "done"

\* the OCR of an image raised: its message was shown and the run is over
\* after the one call
C12_OcrFailureStopsRun ==
    /\ file_type \in ImageTypes
    /\ pc = "done"
    /\ extracted_text = None
    /\ errors = <<"ocr">>
    /\ calls = <<"ocr_image_to_text">>
    /\ ~download_offered

====================
